---- MODULE Spec2Model ----
(***************************************************************************)
(* Model of the Inviu login / refresh / batch-fetch pipeline               *)
(* (src/main.py) and of the spreadsheet OTP source (src/opt_token.py).     *)
(*                                                                         *)
(* Python values are records with a "kind" tag.  A string is a sequence of *)
(* atoms: an atom is either one of the characters the code treats          *)
(* specially ("/", "\\", "?", "_") or a run of other characters.           *)
(***************************************************************************)
EXTENDS Integers, Sequences, FiniteSets, TLC

(***************************************************************************)
(* Bounds of the model                                                     *)
(***************************************************************************)
\* longest descriptor list handed to perform_api_calls in SpecBatch
MaxEndpoints == 2

(***************************************************************************)
(* Python scalars, truthiness                                              *)
(***************************************************************************)
PyNone == [kind |-> "none", s |-> ""]

PyStr(x) == [kind |-> "str", s |-> x]

\* a key that a dict does not hold
Missing == [kind |-> "missing", s |-> ""]

\* a JSON container as far as the code looks at it: s = "" is the empty one
PyDict(x) == [kind |-> "dict", s |-> x]

PyList(x) == [kind |-> "list", s |-> x]

\* bool(v) for None, str, dict and list: None and empty values are falsy
Truthy(v) == v.kind # "none" /\ v.kind # "missing" /\ v.s # ""

\* dict.get(key): None for a key the dict does not hold
DictGet(d, key) == IF d[key].kind = "missing" THEN PyNone ELSE d[key]

(***************************************************************************)
(* JSON documents with the two token fields                                *)
(***************************************************************************)
\* a parsed JSON document: kind "dict" has .get, every other kind has not
Doc(k, idt, rft) == [kind |-> k, idToken |-> idt, refreshToken |-> rft]

NoTokens == Doc("none", Missing, Missing)

IdField == {Missing, PyNone, PyStr(""), PyStr("idA")}

RefreshField == {Missing, PyNone, PyStr(""), PyStr("rfA")}

Docs ==
    {Doc("dict", a, b) : a \in IdField, b \in RefreshField}
        \cup {Doc("list", Missing, Missing), Doc("str", Missing, Missing),
              Doc("none", Missing, Missing)}

\* what window.localStorage.getItem(k) yields: null, "", text that is not
\* JSON, or the text of a JSON document
RawValues ==
    {[kind |-> k, doc |-> NoTokens] : k \in {"null", "empty", "garbage"}}
        \cup {[kind |-> "json", doc |-> d] : d \in Docs}

\* json.loads: a document, or JSONDecodeError
json_loads(raw) ==
    IF raw.kind = "json" THEN [ok |-> TRUE, doc |-> raw.doc]
    ELSE [ok |-> FALSE, doc |-> NoTokens]

\* variant of the extraction that accepts a value with either token
extract_tokens_either(raw) ==
    IF raw.kind = "null" \/ raw.kind = "empty" THEN NoTokens
    ELSE LET parsed == json_loads(raw) IN
         IF ~parsed.ok THEN NoTokens
         ELSE IF parsed.doc.kind # "dict" THEN NoTokens
         ELSE LET id_token == DictGet(parsed.doc, "idToken")
                  refresh_token == DictGet(parsed.doc, "refreshToken")
              IN IF Truthy(id_token) \/ Truthy(refresh_token)
                 THEN Doc("dict", id_token, refresh_token)
                 ELSE NoTokens

\* _extract_tokens_from_local_storage, given the value read from the page
extract_tokens_from_local_storage(raw) ==
    IF raw.kind = "null" \/ raw.kind = "empty" THEN NoTokens
    ELSE LET parsed == json_loads(raw) IN
         IF ~parsed.ok THEN NoTokens                  \* JSONDecodeError
         ELSE IF parsed.doc.kind # "dict" THEN NoTokens   \* AttributeError
         ELSE LET id_token == DictGet(parsed.doc, "idToken")
                  refresh_token == DictGet(parsed.doc, "refreshToken")
              IN IF Truthy(id_token) /\ Truthy(refresh_token)
                 THEN Doc("dict", id_token, refresh_token)
                 ELSE NoTokens

(***************************************************************************)
(* OTP source: src/opt_token.py                                            *)
(***************************************************************************)
\* the "values" of the A1:B1 range as the Sheets API returns them: no rows,
\* an empty row, a row with only the date, and rows with both cells
SheetValues ==
    {<<>>, << <<>> >>, << <<"05/03">> >>, << <<"05/03", "">> >>,
     << <<"", "">> >>, << <<"", "123456">> >>, << <<"05/03", "123456">> >>}

\* one read of the backend: it fails (credentials, authentication, network)
\* or it answers with the range
SheetReads ==
    {[kind |-> k, values |-> <<>>] : k \in {"auth_error", "network_error"}}
        \cup {[kind |-> "ok", values |-> v] : v \in SheetValues}

BackendFailed(read) == read.kind \in {"auth_error", "network_error"}

NoData == [kind |-> "none", email_date |-> PyNone, token |-> PyNone]

Returned(v) == [kind |-> "return", value |-> v, code |-> 0]

Raised(e) == [kind |-> "raise", value |-> PyStr(e), code |-> 0]

Exited(c) == [kind |-> "exit", value |-> PyNone, code |-> c]

\* read_data_from_sheets: the dict, None, or the backend's exception re-raised
read_data_from_sheets(read) ==
    IF BackendFailed(read) THEN Raised("Exception")
    ELSE LET values == read.values IN
         IF values = <<>> \/ values[1] = <<>> THEN Returned(NoData)
         ELSE LET row == values[1]
                  email_date == IF Len(row) > 0 THEN PyStr(row[1]) ELSE PyNone
                  token == IF Len(row) > 1 THEN PyStr(row[2]) ELSE PyNone
              IN IF ~Truthy(email_date) /\ ~Truthy(token) THEN Returned(NoData)
                 ELSE Returned([kind |-> "dict", email_date |-> email_date,
                                token |-> token])

\* main of opt_token.py: the data, or sys.exit(1) when there is no data and
\* when reading raised
opt_main(read) ==
    LET r == read_data_from_sheets(read) IN
    IF r.kind = "raise" THEN Exited(1)
    ELSE IF r.value.kind = "dict" THEN Returned(r.value)
    ELSE Exited(1)

\* get_opt_token: data.get("token") if data else None
get_opt_token(read) ==
    LET m == opt_main(read) IN
    IF m.kind # "return" THEN m
    ELSE IF m.value.kind = "dict" THEN Returned(m.value.token)
    ELSE Returned(PyNone)

\* variant of wait_for_token that hands on whatever get_opt_token gave
wait_for_token_unchecked(read) == get_opt_token(read)

\* wait_for_token: the code, RuntimeError when get_opt_token gave none
wait_for_token(read) ==
    LET t == get_opt_token(read) IN
    IF t.kind # "return" THEN t
    ELSE IF ~Truthy(t.value) THEN Raised("RuntimeError")
    ELSE Returned(t.value)

(***************************************************************************)
(* HTTP calls of src/main.py                                               *)
(***************************************************************************)
HttpStatus == {200, 401, 500}

\* response.raise_for_status(): HTTPError for a 4xx or 5xx status
RaiseForStatus(status) == status >= 400 /\ status < 600

Response(st, isJson, b) ==
    [kind |-> "response", status |-> st, json |-> isJson, body |-> b]

\* no response at all: connection error or the 30 s timeout
TransportError(b) ==
    [kind |-> "transport", status |-> 0, json |-> FALSE, body |-> b]

RefreshDocs ==
    {Doc("dict", a, Missing) : a \in {Missing, PyStr(""), PyStr("idNew")}}
        \cup {Doc("list", Missing, Missing)}

\* what the POST to /advisor/auth/refresh can come back with
RefreshResponses ==
    {TransportError(NoTokens)}
        \cup {Response(st, FALSE, NoTokens) : st \in HttpStatus}
        \cup {Response(200, TRUE, d) : d \in RefreshDocs}

\* refresh_token: the new idToken, None, or AttributeError when the body is
\* JSON but not an object (only RequestException is caught)
refresh_token(resp) ==
    IF resp.kind = "transport" THEN Returned(PyNone)
    ELSE IF RaiseForStatus(resp.status) THEN Returned(PyNone)
    ELSE IF ~resp.json THEN Returned(PyNone)
    ELSE IF resp.body.kind # "dict" THEN Raised("AttributeError")
    ELSE LET new_id_token == DictGet(resp.body, "idToken") IN
         IF Truthy(new_id_token) THEN Returned(new_id_token)
         ELSE Returned(PyNone)

\* JSON bodies of the data endpoints: an object or a list, empty or not
ApiBodies == {PyDict("data"), PyDict(""), PyList("")}

ApiResponses ==
    {TransportError(PyNone)}
        \cup {Response(st, FALSE, PyNone) : st \in {200, 500}}
        \cup {Response(200, TRUE, b) : b \in ApiBodies}

\* the call failed as the batch fetcher's contract counts it: transport
\* error or a status that raise_for_status rejects
CallFailed(resp) == resp.kind = "transport" \/ RaiseForStatus(resp.status)

\* _make_api_call: the decoded body, or None on RequestException
make_api_call(resp) ==
    IF resp.kind = "transport" THEN PyNone
    ELSE IF RaiseForStatus(resp.status) THEN PyNone
    ELSE IF ~resp.json THEN PyNone
    ELSE resp.body

(***************************************************************************)
(* Strings, endpoint descriptors, artifact keys                            *)
(***************************************************************************)
S3_PREFIX == <<"raw">>

S3_BUCKET_NAME == <<"dracma-data-lake">>

API_BASE_URL == <<"https:", "/", "/", "inviuxy.inviu.com.ar">>

\* str.replace(old, new) for a one-character old
Replace(str, old, new) ==
    [k \in 1..Len(str) |-> IF str[k] = old THEN new ELSE str[k]]

RECURSIVE LStrip(_, _)
LStrip(str, ch) ==
    IF str # <<>> /\ Head(str) = ch THEN LStrip(Tail(str), ch) ELSE str

RECURSIVE RStrip(_, _)
RStrip(str, ch) ==
    IF str # <<>> /\ str[Len(str)] = ch
    THEN RStrip(SubSeq(str, 1, Len(str) - 1), ch) ELSE str

\* str.strip(ch)
Strip(str, ch) == RStrip(LStrip(str, ch), ch)

DigitChar == <<"0", "1", "2", "3", "4", "5", "6", "7", "8", "9">>

\* the decimal digits of n, zero-padded to the given width
RECURSIVE ZeroPad(_, _)
ZeroPad(n, width) ==
    IF width = 0 THEN <<>>
    ELSE ZeroPad(n \div 10, width - 1) \o <<DigitChar[(n % 10) + 1]>>

\* datetime.strftime("%Y%m%d")
strftime_Ymd(date) ==
    ZeroPad(date.year, 4) \o ZeroPad(date.month, 2) \o ZeroPad(date.day, 2)

\* local dates a call can be made on
Dates == {[year |-> 2024, month |-> 3, day |-> 5]}

\* one endpoint config; keys says which of the optional keys it has
Descriptor(ep, m, n, ks) ==
    [endpoint |-> ep, method |-> m, name |-> n, keys |-> ks]

\* dict.get(key, default) on an endpoint config
ConfigGet(config, key, default) ==
    IF key \in config.keys THEN config[key] ELSE default

AllKeys == {"endpoint", "method", "name"}

\* get_api_endpoints
get_api_endpoints ==
    << Descriptor(<<"/", "advisor", "/", "clients", "/", "accounts", "/",
                    "v2", "/", "CVAL">>, "GET", <<"cuentas">>, AllKeys),
       Descriptor(<<"/", "advisor", "/", "clients", "/", "all">>, "GET",
                  <<"cartera-aranceles">>, AllKeys),
       Descriptor(<<"/", "advisor", "/", "clients", "/", "movements", "?",
                    "custodian=CVAL">>, "GET",
                  <<"depositos", "_", "y", "_", "retiros-movimientos">>,
                  AllKeys),
       Descriptor(<<"/", "advisor", "/", "operations", "/", "cval">>, "GET",
                  <<"operaciones">>, AllKeys),
       Descriptor(<<"/", "advisor", "/", "holdings", "/", "v2", "/", "CVAL",
                    "?", "term=24HS">>, "GET", <<"tendencias">>, AllKeys),
       Descriptor(<<"/", "advisor", "/", "clients", "/", "balances", "/",
                    "v2">>, "GET", <<"saldos">>, AllKeys) >>

\* the name perform_api_calls gives a config: config.get("name", endpoint)
ConfigName(config) == ConfigGet(config, "name", config.endpoint)

\* filename_base of _save_api_response: the name, or the sanitized endpoint
\* when the name is empty
filename_base(endpoint, name) ==
    IF name # <<>> THEN name
    ELSE Replace(Strip(Replace(Replace(endpoint, "/", "_"), "\\", "_"), "_"),
                 "?", "_")

\* s3_key of _save_api_response
s3_key(endpoint, name, date) ==
    S3_PREFIX \o <<"/">> \o filename_base(endpoint, name) \o <<"_">>
        \o strftime_Ymd(date) \o <<".json">>

\* json.dumps of the envelope that is uploaded
json_dumps(output) == [kind |-> "json", doc |-> output]

\* the put_object request of _save_api_response
save_api_response(endpoint, response_data, method, name, date) ==
    [Bucket |-> S3_BUCKET_NAME,
     Key |-> s3_key(endpoint, name, date),
     Body |-> json_dumps([timestamp |-> date, method |-> method,
                          endpoint |-> endpoint,
                          url |-> API_BASE_URL \o endpoint,
                          data |-> response_data])]

\* variant of the dict write that puts a new key in front
DictSet_Prepend(d, key, value) ==
    IF \E k \in 1..Len(d) : d[k].name = key
    THEN [k \in 1..Len(d) |->
             IF d[k].name = key THEN [name |-> key, value |-> value] ELSE d[k]]
    ELSE <<[name |-> key, value |-> value]>> \o d

\* results[name] = value on an insertion-ordered dict, kept as a sequence
DictSet(d, key, value) ==
    IF \E k \in 1..Len(d) : d[k].name = key
    THEN [k \in 1..Len(d) |->
             IF d[k].name = key THEN [name |-> key, value |-> value] ELSE d[k]]
    ELSE Append(d, [name |-> key, value |-> value])

(***************************************************************************)
(* URLs of the login flow, as sequences of path segments                   *)
(***************************************************************************)
LOGIN_URL == <<"login">>

Urls ==
    {<<"login">>, <<"login", "challenge-code", "abc">>,
     <<"challenge-code", "abc">>, <<"home">>, <<"Login", "retry">>}

\* str.lower() of a path segment
Lower(seg) == IF seg = "Login" THEN "login" ELSE seg

\* the segment occurs in the URL
Contains(u, seg) == \E k \in 1..Len(u) : u[k] = seg

\* page.wait_for_url("**/challenge-code/**") is satisfied by the URL
OnChallengePage(u) == Contains(u, "challenge-code")

\* "/login" not in page.url.lower()
LeftLogin(u) == ~Contains([k \in 1..Len(u) |-> Lower(u[k])], "login")

(***************************************************************************)
(* OTP extraction from a message text (mailbox backend)                    *)
(*                                                                         *)
(* A text is a sequence of whitespace-separated tokens.  A token has a     *)
(* digit run (possibly empty) and the letters glued in front of it         *)
(* (possibly none): "123456" is a bare run, "code4321" a run glued to a    *)
(* keyword, "Code" a word.                                                 *)
(***************************************************************************)
\* longest message text, in tokens
MaxTextLen == 3

Token(pre, digits) == [pre |-> pre, digits |-> digits]

Tokens ==
    {Token("", <<"1", "2", "3", "4", "5", "6">>),
     Token("", <<"6", "5", "4", "3", "2", "1">>),
     Token("", <<"4", "3", "2", "1">>),
     Token("", <<"9", "8", "7", "6", "5">>),
     Token("code", <<"4", "3", "2", "1">>),
     Token("ref", <<"9", "8", "7", "6", "5">>),
     Token("Code", <<>>),
     Token("hola", <<>>)}

Texts == UNION {[1..n -> Tokens] : n \in 0..MaxTextLen}

OtpKeywords == {"código", "code", "otp", "token"}

\* lower-casing of the words that occur in the texts
lower_word(w) ==
    IF w = "Code" THEN "code" ELSE IF w = "OTP" THEN "otp" ELSE w

IsKeyword(w) == lower_word(w) \in OtpKeywords

IsRun(text, k) == text[k].digits # <<>>

\* a digit run with nothing glued to it
IsBare(text, k) == IsRun(text, k) /\ text[k].pre = ""

\* a digit run with a keyword right in front of it
IsKeywordPrefixed(text, k) ==
    /\ IsRun(text, k)
    /\ \/ IsKeyword(text[k].pre)
       \/ /\ text[k].pre = ""
          /\ k > 1
          /\ ~IsRun(text, k - 1)
          /\ IsKeyword(text[k - 1].pre)

RunLen(text, k) == Len(text[k].digits)

FirstOf(S) == CHOOSE k \in S : \A j \in S : k <= j

\* among the matches of one strategy: a run of six or more digits before a
\* shorter one, then the first
PreferLong(text, S) ==
    LET long == {k \in S : RunLen(text, k) >= 6}
    IN IF long # {} THEN FirstOf(long) ELSE FirstOf(S)

NoCodeFound == [found |-> FALSE, digits |-> <<>>]

Found(d) == [found |-> TRUE, digits |-> d]

\* variant of the extraction that tries the keyword strategy first
extract_code_keyword_first(text) ==
    LET idxs == 1..Len(text)
        six == {k \in idxs : IsBare(text, k) /\ RunLen(text, k) = 6}
        keyword == {k \in idxs : IsKeywordPrefixed(text, k)
                                    /\ RunLen(text, k) \in 4..8}
    IN IF keyword # {} THEN Found(text[FirstOf(keyword)].digits)
       ELSE IF six # {} THEN Found(text[FirstOf(six)].digits)
       ELSE NoCodeFound

\* the extraction algorithm: four strategies in strict priority order
extract_code(text) ==
    LET idxs == 1..Len(text)
        six == {k \in idxs : IsBare(text, k) /\ RunLen(text, k) = 6}
        bare == {k \in idxs : IsBare(text, k) /\ RunLen(text, k) \in 4..8}
        keyword == {k \in idxs : IsKeywordPrefixed(text, k)
                                    /\ RunLen(text, k) \in 4..8}
        trailing == {k \in idxs : IsRun(text, k) /\ RunLen(text, k) \in 4..8}
    IN IF six # {} THEN Found(text[FirstOf(six)].digits)
       ELSE IF bare # {} THEN Found(text[PreferLong(text, bare)].digits)
       ELSE IF keyword # {} THEN Found(text[PreferLong(text, keyword)].digits)
       ELSE IF trailing # {}
            THEN Found(text[PreferLong(text, trailing)].digits)
       ELSE NoCodeFound

NoCodeYet == [found |-> FALSE, digits |-> <<"pending">>]

NoMail == [text |-> <<>>, result |-> NoCodeYet]

(***************************************************************************)
(* State                                                                   *)
(***************************************************************************)
VARIABLES
    pc,               \* position of the single thread of control
    exc,              \* the exception that ended the process, or "none"
    playwright,       \* "none", "running", "stopped": the sync_playwright scope
    browser,          \* "none", "open", "closed"
    url,              \* page.url
    listener,         \* the response expectation attached to the page
    net,              \* the submit request: "idle", "inflight", "fired"
    captured,         \* status of the response the expectation caught, or 0
    missed,           \* a matching response fired with no expectation attached
    submit_idx,       \* which step of the submit block runs next
    login_status,     \* locals of perform_login
    challenge_status,
    sheet,            \* what the OTP backend answered
    otp_outcome,      \* outcome of get_opt_token
    typed,            \* what was typed into the OTP input
    storage,          \* the local storage value read from the page
    tokens,           \* return value of perform_login
    login_result,     \* "pending", "absent", "pair", "raised"
    refresh_resp,     \* response of the refresh POST
    refreshed_token,  \* locals of main
    active_token,
    endpoints,        \* arguments and locals of perform_api_calls
    idx,
    http,
    response,
    results,
    s3_objects,       \* the put_object requests that succeeded, in order
    call_log,         \* the HTTP calls of the batch, in order
    clock,            \* local date
    timed_out,        \* the wait step whose timeout elapsed, or "none"
    hist,             \* counters of what the run did
    mail              \* a message text and the code extracted from it

vars ==
    <<pc, exc, playwright, browser, url, listener, net, captured, missed,
      submit_idx, login_status, challenge_status, sheet, otp_outcome, typed,
      storage, tokens, login_result, refresh_resp, refreshed_token,
      active_token, endpoints, idx, http, response, results, s3_objects,
      call_log, clock, timed_out, hist, mail>>

browserVars == <<playwright, browser>>

pageVars == <<url, listener, net, captured, missed, submit_idx>>

loginVars ==
    <<login_status, challenge_status, sheet, otp_outcome, typed, storage>>

mainVars == <<tokens, login_result, refresh_resp, refreshed_token, active_token>>

batchVars == <<endpoints, idx, http, response, results, s3_objects, call_log>>

NoRead == [kind |-> "unread", values |-> <<>>]

NoRaw == [kind |-> "unread", doc |-> NoTokens]

NoResponse == [kind |-> "none", status |-> 0, json |-> FALSE, body |-> PyNone]

Pending == [kind |-> "pending", value |-> PyNone, code |-> 0]

NoHist ==
    [login_clicks |-> 0, challenge_clicks |-> 0, otp_reads |-> 0,
     state_saved |-> 0, refresh_posts |-> 0, challenge_entered |-> FALSE,
     challenge_url_seen |-> FALSE, otp_input_seen |-> FALSE,
     put_failures |-> 0]

\* variant in which the wait for leaving the challenge page has no timeout
WaitSteps_NoLeaveDeadline ==
    {"goto", "fill_wait_email", "fill_wait_password", "login_wait_enabled",
     "login_response_wait", "challenge_wait_url", "challenge_wait_input",
     "challenge_wait_enabled", "challenge_response_wait"}

\* every wait of the login flow that has a timeout
WaitSteps ==
    {"goto", "fill_wait_email", "fill_wait_password", "login_wait_enabled",
     "login_response_wait", "challenge_wait_url", "challenge_wait_input",
     "challenge_wait_enabled", "challenge_response_wait",
     "challenge_wait_leave"}

Fresh ==
    /\ exc = "none"
    /\ playwright = "none"
    /\ browser = "none"
    /\ url = <<>>
    /\ listener = "none"
    /\ net = "idle"
    /\ captured = 0
    /\ missed = FALSE
    /\ submit_idx = 1
    /\ login_status = 0
    /\ challenge_status = 0
    /\ sheet = NoRead
    /\ otp_outcome = Pending
    /\ typed = PyNone
    /\ storage = NoRaw
    /\ tokens = NoTokens
    /\ login_result = "pending"
    /\ refresh_resp = NoResponse
    /\ refreshed_token = PyNone
    /\ http = NoResponse
    /\ response = PyNone
    /\ results = <<>>
    /\ s3_objects = <<>>
    /\ call_log = <<>>
    /\ clock \in Dates
    /\ timed_out = "none"
    /\ hist = NoHist

\* the process starts main() of main.py
Init ==
    /\ Fresh
    /\ mail = NoMail
    /\ pc = "main"
    /\ active_token = PyNone
    /\ endpoints = <<>>
    /\ idx = 0

(***************************************************************************)
(* perform_login                                                           *)
(***************************************************************************)
\* browser.close()
browser_close(b) == "closed"

\* variant of the scope exit that leaves a running browser alone
sync_playwright_exit_leaky(b) == b

\* leaving the "with sync_playwright()" block, by return or by exception:
\* Playwright stops and takes down a browser that is still open
sync_playwright_exit(b) == IF b = "open" THEN "closed" ELSE b

\* an exception leaves perform_login and main: nothing catches it
RaiseInLogin(e) ==
    /\ pc' = "raised"
    /\ exc' = e
    /\ playwright' = "stopped"
    /\ browser' = sync_playwright_exit(browser)
    /\ login_result' = "raised"
    /\ UNCHANGED <<tokens, refresh_resp, refreshed_token, active_token>>

\* browser.close(); return t
ReturnFromLogin(t) ==
    /\ pc' = "login_returned"
    /\ tokens' = t
    /\ login_result' = IF t = NoTokens THEN "absent" ELSE "pair"
    /\ playwright' = "stopped"
    /\ browser' = sync_playwright_exit(browser_close(browser))
    /\ UNCHANGED <<exc, refresh_resp, refreshed_token, active_token>>

\* sync_playwright(), launch, new_context, new_page
LaunchBrowser ==
    /\ pc = "main"
    /\ pc' = "goto"
    /\ playwright' = "running"
    /\ browser' = "open"
    /\ UNCHANGED <<exc, pageVars, loginVars, mainVars, batchVars, clock, mail,
                   timed_out, hist>>

\* page.goto(LOGIN_URL) loaded the page
Goto ==
    /\ pc = "goto"
    /\ pc' = "fill_wait_email"
    /\ url' = LOGIN_URL
    /\ UNCHANGED <<exc, browserVars, listener, net, captured, missed,
                   submit_idx, loginVars, mainVars, batchVars, clock, mail,
                   timed_out, hist>>

\* a wait_for_selector / wait_for_function found what it waits for
WaitDone ==
    /\ \/ pc = "fill_wait_email" /\ pc' = "fill_wait_password"
       \/ pc = "fill_wait_password" /\ pc' = "login_wait_enabled"
       \/ pc = "login_wait_enabled" /\ pc' = "login_submit"
       \/ pc = "challenge_wait_input" /\ pc' = "otp_read"
       \/ pc = "challenge_wait_enabled" /\ pc' = "challenge_submit"
    /\ hist' = IF pc = "challenge_wait_input"
               THEN [hist EXCEPT !.otp_input_seen = TRUE] ELSE hist
    /\ UNCHANGED <<exc, browserVars, pageVars, loginVars, mainVars, batchVars,
                   clock, mail, timed_out>>

\* the timeout of the wait the flow is in elapses: Playwright raises
\* TimeoutError
StepTimeout ==
    /\ pc \in WaitSteps
    /\ pc \in {"login_response_wait", "challenge_response_wait"}
          => captured = 0
    /\ timed_out' = pc
    /\ RaiseInLogin("TimeoutError")
    /\ UNCHANGED <<pageVars, loginVars, batchVars, clock, mail, hist>>

Phase == IF pc = "login_submit" THEN "login" ELSE "challenge"

\* variant of the submit block that clicks before it attaches the expectation
SubmitOrder_ClickFirst == <<"click", "expect">>

\* the order of the two steps of
\*   with page.expect_response(...) as response_info: page.click(submit_btn)
SubmitOrder == <<"expect", "click">>

SubmitAdvance ==
    IF submit_idx = Len(SubmitOrder)
    THEN /\ submit_idx' = 1
         /\ pc' = IF pc = "login_submit" THEN "login_response_wait"
                  ELSE "challenge_response_wait"
    ELSE /\ submit_idx' = submit_idx + 1
         /\ pc' = pc

\* page.expect_response(...).__enter__: the expectation is attached
ExpectResponse ==
    /\ pc \in {"login_submit", "challenge_submit"}
    /\ SubmitOrder[submit_idx] = "expect"
    /\ listener' = Phase
    /\ SubmitAdvance
    /\ UNCHANGED <<exc, browserVars, url, net, captured, missed, loginVars,
                   mainVars, batchVars, clock, mail, timed_out, hist>>

\* page.click(submit_btn): the request leaves
ClickSubmit ==
    /\ pc \in {"login_submit", "challenge_submit"}
    /\ SubmitOrder[submit_idx] = "click"
    /\ net' = "inflight"
    /\ hist' = IF pc = "login_submit"
               THEN [hist EXCEPT !.login_clicks = @ + 1]
               ELSE [hist EXCEPT !.challenge_clicks = @ + 1]
    /\ SubmitAdvance
    /\ UNCHANGED <<exc, browserVars, url, listener, captured, missed,
                   loginVars, mainVars, batchVars, clock, mail, timed_out>>

\* the backend's response to the submit request fires on the page
ResponseArrives ==
    /\ net = "inflight"
    /\ pc # "raised"
    /\ net' = "fired"
    /\ \E st \in HttpStatus :
          IF listener # "none"
          THEN captured' = st /\ missed' = missed
          ELSE captured' = captured /\ missed' = TRUE
    /\ UNCHANGED <<pc, exc, browserVars, url, listener, submit_idx, loginVars,
                   mainVars, batchVars, clock, mail, timed_out, hist>>

\* leaving the expect_response block with the response; response.status
ReadResponse ==
    /\ pc \in {"login_response_wait", "challenge_response_wait"}
    /\ captured # 0
    /\ IF pc = "login_response_wait"
       THEN /\ login_status' = captured
            /\ pc' = "login_check"
            /\ UNCHANGED challenge_status
       ELSE /\ challenge_status' = captured
            /\ pc' = "challenge_wait_leave"
            /\ UNCHANGED login_status
    /\ listener' = "none"
    /\ net' = "idle"
    /\ captured' = 0
    /\ UNCHANGED <<exc, browserVars, url, missed, submit_idx, sheet,
                   otp_outcome, typed, storage, mainVars, batchVars, clock, mail,
                   timed_out, hist>>

\* if login_status != 200: browser.close(); return None
LoginFailed ==
    /\ pc = "login_check"
    /\ login_status # 200
    /\ ReturnFromLogin(NoTokens)
    /\ UNCHANGED <<pageVars, loginVars, batchVars, clock, mail, timed_out, hist>>

\* variant of the login check that enters the challenge on any status
EnterChallenge_AnyStatus ==
    /\ pc = "login_check"
    /\ pc' = "challenge_wait_url"
    /\ hist' = [hist EXCEPT !.challenge_entered = TRUE]
    /\ UNCHANGED <<exc, browserVars, pageVars, loginVars, mainVars, batchVars,
                   clock, mail, timed_out>>

\* login_status == 200: _handle_otp_challenge is entered
EnterChallenge ==
    /\ pc = "login_check"
    /\ login_status = 200
    /\ pc' = "challenge_wait_url"
    /\ hist' = [hist EXCEPT !.challenge_entered = TRUE]
    /\ UNCHANGED <<exc, browserVars, pageVars, loginVars, mainVars, batchVars,
                   clock, mail, timed_out>>

\* page.wait_for_url("**/challenge-code/**"): the page navigated there
ChallengeUrlReached ==
    /\ pc = "challenge_wait_url"
    /\ \E u \in Urls : OnChallengePage(u) /\ url' = u
    /\ pc' = "challenge_wait_input"
    /\ hist' = [hist EXCEPT !.challenge_url_seen = TRUE]
    /\ UNCHANGED <<exc, browserVars, listener, net, captured, missed,
                   submit_idx, loginVars, mainVars, batchVars, clock, mail,
                   timed_out>>

\* otp_code = wait_for_token(WAIT_TIME_FOR_TOKEN), then the code is typed
ReadOtp ==
    /\ pc = "otp_read"
    /\ \E read \in SheetReads :
          LET w == wait_for_token(read) IN
          /\ sheet' = read
          /\ otp_outcome' = get_opt_token(read)
          /\ hist' = [hist EXCEPT !.otp_reads = @ + 1]
          /\ IF w.kind = "return"
             THEN /\ typed' = w.value
                  /\ pc' = "challenge_wait_enabled"
                  /\ UNCHANGED <<exc, browserVars, mainVars>>
             ELSE /\ typed' = typed
                  /\ RaiseInLogin(IF w.kind = "exit" THEN "SystemExit"
                                  ELSE w.value.s)
    /\ UNCHANGED <<pageVars, login_status, challenge_status, storage,
                   batchVars, clock, mail, timed_out>>

\* page.wait_for_url(lambda url: "challenge-code" not in url): the page left
ChallengeLeft ==
    /\ pc = "challenge_wait_leave"
    /\ \E u \in Urls : ~Contains(u, "challenge-code") /\ url' = u
    /\ pc' = "final_check"
    /\ UNCHANGED <<exc, browserVars, listener, net, captured, missed,
                   submit_idx, loginVars, mainVars, batchVars, clock, mail,
                   timed_out, hist>>

\* variant of the last condition that looks at the challenge status only
LoginOk_StatusOnly == challenge_status = 200

\* variant of the last condition that looks at the URL only
LoginOk_UrlOnly == LeftLogin(url)

\* the condition of the last if of perform_login
LoginOk == challenge_status = 200 /\ LeftLogin(url)

\* else branch: browser.close(); return None
ChallengeFailed ==
    /\ pc = "final_check"
    /\ ~LoginOk
    /\ ReturnFromLogin(NoTokens)
    /\ UNCHANGED <<pageVars, loginVars, batchVars, clock, mail, timed_out, hist>>

\* context.storage_state(path="session_state.json")
SaveStorageState ==
    /\ pc = "final_check"
    /\ LoginOk
    /\ pc' = "extract"
    /\ hist' = [hist EXCEPT !.state_saved = @ + 1]
    /\ UNCHANGED <<exc, browserVars, pageVars, loginVars, mainVars, batchVars,
                   clock, mail, timed_out>>

\* tokens = _extract_tokens_from_local_storage(...); browser.close(); return
ExtractTokens ==
    /\ pc = "extract"
    /\ \E raw \in RawValues :
          /\ storage' = raw
          /\ ReturnFromLogin(extract_tokens_from_local_storage(raw))
    /\ UNCHANGED <<pageVars, login_status, challenge_status, sheet,
                   otp_outcome, typed, batchVars, clock, mail, timed_out, hist>>

(***************************************************************************)
(* main: refresh and token selection                                       *)
(***************************************************************************)
\* an exception raised after perform_login returned ends the process
RaiseInMain(e) ==
    /\ pc' = "raised"
    /\ exc' = e

\* variant of main that goes on without a token pair
MainAbort_Continue ==
    /\ pc = "login_returned"
    /\ tokens = NoTokens
    /\ pc' = "select_token"
    /\ UNCHANGED <<exc, browserVars, pageVars, loginVars, mainVars, batchVars,
                   clock, mail, timed_out, hist>>

\* if not tokens: return
MainAbort ==
    /\ pc = "login_returned"
    /\ tokens = NoTokens
    /\ pc' = "main_done"
    /\ UNCHANGED <<exc, browserVars, pageVars, loginVars, mainVars, batchVars,
                   clock, mail, timed_out, hist>>

\* refreshed_token = refresh_token(id_token, refresh_token_value)
Refresh ==
    /\ pc = "login_returned"
    /\ tokens # NoTokens
    /\ \E resp \in RefreshResponses :
          LET r == refresh_token(resp) IN
          /\ refresh_resp' = resp
          /\ IF r.kind = "return"
             THEN /\ refreshed_token' = r.value
                  /\ pc' = "select_token"
                  /\ exc' = exc
             ELSE /\ refreshed_token' = refreshed_token
                  /\ RaiseInMain(r.value.s)
    /\ hist' = [hist EXCEPT !.refresh_posts = @ + 1]
    /\ UNCHANGED <<browserVars, pageVars, loginVars, tokens, login_result,
                   active_token, batchVars, clock, mail, timed_out>>

\* variant of the token selection without the fallback
select_active_token_no_fallback(id_token, refreshed) == refreshed

\* the token main goes on with, given what refresh_token returned
select_active_token(id_token, refreshed) ==
    IF ~Truthy(refreshed) THEN id_token ELSE refreshed

\* active_token = ...; endpoints = get_api_endpoints()
SelectToken ==
    /\ pc = "select_token"
    /\ active_token' = select_active_token(tokens.idToken, refreshed_token)
    /\ endpoints' = get_api_endpoints
    /\ pc' = "batch_enter"
    /\ UNCHANGED <<exc, browserVars, pageVars, loginVars, tokens, login_result,
                   refresh_resp, refreshed_token, idx, http, response, results,
                   s3_objects, call_log, clock, mail, timed_out, hist>>

(***************************************************************************)
(* perform_api_calls                                                       *)
(***************************************************************************)
\* perform_api_calls(active_token, endpoints) is entered: results = {}.
\* The response object of the refresh POST is no longer referenced.
BatchEnter ==
    /\ pc = "batch_enter"
    /\ results' = <<>>
    /\ idx' = 1
    /\ refresh_resp' = NoResponse
    /\ pc' = "batch_call"
    /\ UNCHANGED <<exc, browserVars, pageVars, loginVars, tokens, login_result,
                   refreshed_token, active_token, endpoints, http, response,
                   s3_objects, call_log, clock, mail, timed_out, hist>>

\* response = _make_api_call(token, endpoint, method, **request_kwargs)
BatchCall ==
    /\ pc = "batch_call"
    /\ idx <= Len(endpoints)
    /\ \E resp \in ApiResponses :
          /\ http' = resp
          /\ response' = make_api_call(resp)
          /\ call_log' = Append(call_log,
                                [name |-> ConfigName(endpoints[idx]),
                                 endpoint |-> endpoints[idx].endpoint,
                                 token |-> active_token,
                                 resp |-> resp])
    /\ pc' = "batch_record"
    /\ UNCHANGED <<exc, browserVars, pageVars, loginVars, mainVars, endpoints,
                   idx, results, s3_objects, clock, mail, timed_out, hist>>

\* the branch perform_api_calls takes on a response: "if response:"
response_ok(resp) == Truthy(resp)

\* variant of the success branch that records the result and uploads nothing
BatchSave_RecordOnly ==
    /\ pc = "batch_record"
    /\ response_ok(response)
    /\ results' = DictSet(results, ConfigName(endpoints[idx]), response)
    /\ idx' = idx + 1
    /\ pc' = "batch_call"
    /\ UNCHANGED <<exc, browserVars, pageVars, loginVars, mainVars, endpoints,
                   http, response, s3_objects, call_log, clock, mail, timed_out,
                   hist>>

\* if response: the upload succeeds; results[name] = response
BatchSave ==
    /\ pc = "batch_record"
    /\ response_ok(response)
    /\ LET config == endpoints[idx]
           name == ConfigName(config)
       IN /\ s3_objects' =
                Append(s3_objects,
                       save_api_response(config.endpoint, response,
                                         ConfigGet(config, "method", "GET"),
                                         name, clock))
          /\ results' = DictSet(results, name, response)
    /\ idx' = idx + 1
    /\ pc' = "batch_call"
    /\ UNCHANGED <<exc, browserVars, pageVars, loginVars, mainVars, endpoints,
                   http, response, call_log, clock, mail, timed_out, hist>>

\* variant of the failing upload that swallows the error and records a failure
BatchSaveFails_Swallowed ==
    /\ pc = "batch_record"
    /\ response_ok(response)
    /\ results' = DictSet(results, ConfigName(endpoints[idx]), PyNone)
    /\ idx' = idx + 1
    /\ pc' = "batch_call"
    /\ hist' = [hist EXCEPT !.put_failures = @ + 1]
    /\ UNCHANGED <<exc, browserVars, pageVars, loginVars, mainVars, endpoints,
                   http, response, s3_objects, call_log, clock, mail, timed_out>>

\* if response: put_object raises ClientError, which _save_api_response
\* re-raises and nothing catches
BatchSaveFails ==
    /\ pc = "batch_record"
    /\ response_ok(response)
    /\ RaiseInMain("ClientError")
    /\ hist' = [hist EXCEPT !.put_failures = @ + 1]
    /\ UNCHANGED <<browserVars, pageVars, loginVars, mainVars, batchVars,
                   clock, mail, timed_out>>

\* variant of the failure branch that also drops the token and the descriptor
BatchFail_DropsInputs ==
    /\ pc = "batch_record"
    /\ ~response_ok(response)
    /\ results' = DictSet(results, ConfigName(endpoints[idx]), PyNone)
    /\ active_token' = PyNone
    /\ endpoints' = [endpoints EXCEPT ![idx].method = "DONE"]
    /\ idx' = idx + 1
    /\ pc' = "batch_call"
    /\ UNCHANGED <<exc, browserVars, pageVars, loginVars, tokens, login_result,
                   refresh_resp, refreshed_token, http, response, s3_objects,
                   call_log, clock, mail, timed_out, hist>>

\* variant of the failure branch that goes back to the same descriptor
BatchFail_Retry ==
    /\ pc = "batch_record"
    /\ ~response_ok(response)
    /\ pc' = "batch_call"
    /\ UNCHANGED <<exc, browserVars, pageVars, loginVars, mainVars, endpoints,
                   idx, results, http, response, s3_objects, call_log, clock,
                   mail, timed_out, hist>>

\* else: results[name] = None
BatchFail ==
    /\ pc = "batch_record"
    /\ ~response_ok(response)
    /\ results' = DictSet(results, ConfigName(endpoints[idx]), PyNone)
    /\ idx' = idx + 1
    /\ pc' = "batch_call"
    /\ UNCHANGED <<exc, browserVars, pageVars, loginVars, mainVars, endpoints,
                   http, response, s3_objects, call_log, clock, mail, timed_out,
                   hist>>

\* the loop is over: return results
BatchReturn ==
    /\ pc = "batch_call"
    /\ idx > Len(endpoints)
    /\ pc' = "batch_returned"
    /\ UNCHANGED <<exc, browserVars, pageVars, loginVars, mainVars, batchVars,
                   clock, mail, timed_out, hist>>

\* main prints the per-endpoint summary and ends
Summary ==
    /\ pc = "batch_returned"
    /\ pc' = "main_done"
    /\ UNCHANGED <<exc, browserVars, pageVars, loginVars, mainVars, batchVars,
                   clock, mail, timed_out, hist>>

(***************************************************************************)
(* Specifications                                                          *)
(***************************************************************************)
Next ==
    \/ LaunchBrowser
    \/ Goto
    \/ WaitDone
    \/ StepTimeout
    \/ ExpectResponse
    \/ ClickSubmit
    \/ ResponseArrives
    \/ ReadResponse
    \/ LoginFailed
    \/ EnterChallenge
    \/ ChallengeUrlReached
    \/ ReadOtp
    \/ ChallengeLeft
    \/ ChallengeFailed
    \/ SaveStorageState
    \/ ExtractTokens
    \/ MainAbort
    \/ Refresh
    \/ SelectToken
    \/ BatchEnter
    \/ BatchCall
    \/ BatchSave
    \/ BatchSaveFails
    \/ BatchFail
    \/ BatchReturn
    \/ Summary

\* one run of main()
Spec == Init /\ [][Next]_vars

\* the steps the program takes by itself: statements of main.py, and the
\* calls (Sheets read, refresh POST, endpoint call, upload) that return or fail
ProgramStep ==
    \/ LaunchBrowser
    \/ ExpectResponse
    \/ ClickSubmit
    \/ ReadResponse
    \/ LoginFailed
    \/ EnterChallenge
    \/ ReadOtp
    \/ ChallengeFailed
    \/ SaveStorageState
    \/ ExtractTokens
    \/ MainAbort
    \/ Refresh
    \/ SelectToken
    \/ BatchEnter
    \/ BatchCall
    \/ BatchSave
    \/ BatchSaveFails
    \/ BatchFail
    \/ BatchReturn
    \/ Summary

\* one run of main() in which the program keeps running and a pending wait
\* reaches its timeout; whether the page ever shows what a wait is for
\* (Goto, WaitDone, ResponseArrives, ChallengeUrlReached, ChallengeLeft) is
\* up to the site
FairSpec == Spec /\ WF_vars(StepTimeout) /\ WF_vars(ProgramStep)

\* endpoint configs perform_api_calls is tried on: named, without a name,
\* with an empty name, and two that share a name
DescriptorPool ==
    {Descriptor(<<"/", "a">>, "GET", <<"a">>, AllKeys),
     Descriptor(<<"/", "b", "?", "q">>, "GET", <<"b">>, AllKeys),
     Descriptor(<<"/", "a", "/", "x">>, "POST", <<"a">>, AllKeys),
     Descriptor(<<"/", "c", "\\", "d", "?">>, "GET", <<>>, {"endpoint"}),
     Descriptor(<<"/", "e", "/">>, "GET", <<>>, AllKeys)}

DescriptorLists == UNION {[1..n -> DescriptorPool] : n \in 0..MaxEndpoints}

\* perform_api_calls called on its own with a token and a list of configs
InitBatch ==
    /\ Fresh
    /\ mail = NoMail
    /\ pc = "batch_call"
    /\ active_token = PyStr("idA")
    /\ endpoints \in DescriptorLists
    /\ idx = 1

NextBatch ==
    \/ BatchCall
    \/ BatchSave
    \/ BatchSaveFails
    \/ BatchFail
    \/ BatchReturn

SpecBatch == InitBatch /\ [][NextBatch]_vars

\* the extraction is applied to a message text
InitMail ==
    /\ Fresh
    /\ pc = "mail_extract"
    /\ active_token = PyNone
    /\ endpoints = <<>>
    /\ idx = 0
    /\ mail \in {[text |-> t, result |-> NoCodeYet] : t \in Texts}

ExtractCode ==
    /\ pc = "mail_extract"
    /\ pc' = "mail_done"
    /\ mail' = [mail EXCEPT !.result = extract_code(mail.text)]
    /\ UNCHANGED <<exc, browserVars, pageVars, loginVars, mainVars, batchVars,
                   clock, timed_out, hist>>

NextMail == ExtractCode

SpecMail == InitMail /\ [][NextMail]_vars

(***************************************************************************)
(* Properties of the login driver                                          *)
(***************************************************************************)
\* C1: a timeout at any wait step of the login flow ends perform_login with
\* an absent token pair returned, and no exception escapes to the caller.
C1_TimeoutReturnsAbsent ==
    timed_out # "none" => (login_result = "absent" /\ exc = "none")

\* C2: once perform_login has ended, by returning tokens, by returning None
\* or by an exception, the browser session it opened is closed.
C2_SessionClosedOnExit ==
    login_result # "pending" => (browser = "closed" /\ playwright = "stopped")

C2_ClosedAfterException ==
    /\ login_result = "raised"
    /\ exc = "RuntimeError"
    /\ hist.challenge_entered
    /\ browser = "closed"

\* the refresh POST came back 2xx with a JSON object holding a non-empty idToken
RefreshSucceeded(resp) ==
    /\ resp.kind = "response"
    /\ resp.status \in 200..299
    /\ resp.json
    /\ resp.body.kind = "dict"
    /\ resp.body.idToken.kind = "str"
    /\ resp.body.idToken.s # ""

BatchPcs == {"batch_enter", "batch_call", "batch_record", "batch_returned"}

\* C3: after a login that returned a token pair, the token handed to the batch
\* fetcher is the refreshed idToken when refresh succeeded and the original
\* idToken when it failed; the batch never runs with an absent token.
C3_ActiveTokenAfterRefresh ==
    /\ pc = "batch_enter" =>
          active_token = IF RefreshSucceeded(refresh_resp)
                         THEN refresh_resp.body.idToken
                         ELSE tokens.idToken
    /\ pc \in BatchPcs => (active_token.kind = "str" /\ active_token.s # "")
    /\ \A k \in 1..Len(call_log) :
          call_log[k].token.kind = "str" /\ call_log[k].token.s # ""

C3_FallbackToOriginal ==
    /\ pc = "batch_enter"
    /\ refresh_resp.kind = "response"
    /\ refresh_resp.status = 200
    /\ refresh_resp.json
    /\ refresh_resp.body.idToken = Missing
    /\ active_token = PyStr("idA")

\* the names perform_api_calls gives the configs are pairwise distinct
DistinctNames(eps) ==
    \A a, b \in 1..Len(eps) :
        a # b => ConfigName(eps[a]) # ConfigName(eps[b])

\* the HTTP call did not succeed: transport error, non-2xx, or (read in the
\* claim's favour) a 2xx body that is not JSON
HttpCallFailed(resp) == CallFailed(resp) \/ ~resp.json

\* C4: for N configs with pairwise distinct names of which M HTTP calls fail,
\* perform_api_calls returns N entries, exactly M of them marked failed, and
\* every config was attempted.
C4_ExactlyMFailed ==
    (pc = "batch_returned" /\ DistinctNames(endpoints)) =>
        /\ Len(results) = Len(endpoints)
        /\ Len(call_log) = Len(endpoints)
        /\ Cardinality({k \in 1..Len(results) : results[k].value = PyNone})
              = Cardinality({k \in 1..Len(call_log) :
                                HttpCallFailed(call_log[k].resp)})

\* local storage held a JSON object with a non-empty idToken and refreshToken
StoredPair(raw) ==
    /\ raw.kind = "json"
    /\ raw.doc.kind = "dict"
    /\ raw.doc.idToken.kind = "str" /\ raw.doc.idToken.s # ""
    /\ raw.doc.refreshToken.kind = "str" /\ raw.doc.refreshToken.s # ""

\* C5: perform_login returns a token pair only if the login status was 200,
\* the challenge status was 200, the final URL no longer contains the login
\* path and local storage held both tokens; otherwise it returns absent.
C5_AuthenticatedOnlyIf ==
    LET ok == /\ login_status = 200
              /\ challenge_status = 200
              /\ ~\E k \in 1..Len(url) : url[k] \in {"login", "Login"}
              /\ StoredPair(storage)
    IN /\ login_result = "pair" => (ok /\ tokens # NoTokens)
       /\ pc = "login_returned" => (login_result = "pair" <=> ok)
       /\ login_result \in {"absent", "raised"} => tokens = NoTokens

C5_Authenticated ==
    /\ pc = "login_returned"
    /\ login_result = "pair"
    /\ tokens = Doc("dict", PyStr("idA"), PyStr("rfA"))

\* C6: token extraction returns exactly the stored pair when the stored JSON
\* has a non-empty idToken and refreshToken, and absent when the value is
\* missing, not JSON, or either field is missing or empty; never half a pair.
C6_ExtractionAllOrNothing ==
    storage.kind # "unread" =>
        /\ StoredPair(storage) =>
              /\ tokens.kind = "dict"
              /\ tokens.idToken = storage.doc.idToken
              /\ tokens.refreshToken = storage.doc.refreshToken
        /\ ~StoredPair(storage) => tokens = NoTokens
        /\ tokens # NoTokens =>
              /\ tokens.idToken.kind = "str" /\ tokens.idToken.s # ""
              /\ tokens.refreshToken.kind = "str" /\ tokens.refreshToken.s # ""

C6_HalfPairStored ==
    /\ storage.kind = "json"
    /\ storage.doc.kind = "dict"
    /\ storage.doc.idToken = PyStr("idA")
    /\ storage.doc.refreshToken = PyStr("")
    /\ tokens = NoTokens
    /\ login_result = "absent"

\* C7: when the login response status is not 200 the driver returns no
\* tokens; the challenge step is not entered, the OTP source is not read and
\* no storage state is written in that run.
C7_LoginFailedIsTerminal ==
    (login_status # 0 /\ login_status # 200) =>
        /\ pc \in {"login_check", "login_returned", "main_done"}
        /\ pc # "login_check" => (login_result = "absent" /\ tokens = NoTokens)
        /\ ~hist.challenge_entered
        /\ hist.otp_reads = 0
        /\ hist.challenge_clicks = 0
        /\ hist.state_saved = 0

C7_LoginRejected ==
    /\ login_status = 401
    /\ pc = "main_done"
    /\ login_result = "absent"

\* C8: in the login submit and in the challenge submit no response to the
\* submit request fires while no expectation is attached.
C8_NoResponseMissed ==
    /\ ~missed
    /\ net = "fired" => listener # "none"
    /\ net = "inflight" => listener # "none"

C8_ChallengeResponseCaught ==
    /\ net = "fired"
    /\ listener = "challenge"
    /\ captured = 200
    /\ hist.login_clicks = 1
    /\ hist.challenge_clicks = 1

(***************************************************************************)
(* Properties of the OTP source                                            *)
(***************************************************************************)
\* the backend was read and holds no code: no row, an empty row, no code
\* cell or an empty code cell
NoCode(read) ==
    /\ read.kind = "ok"
    /\ \/ read.values = <<>>
       \/ Len(read.values[1]) < 2
       \/ read.values[1][2] = ""

\* C9: when the backend is read successfully and holds no code,
\* get_opt_token returns absent; it neither raises nor ends the process.
C9_NoCodeReturnsAbsent ==
    NoCode(sheet) =>
        (otp_outcome.kind = "return" /\ ~Truthy(otp_outcome.value))

\* C10: a backend failure comes out of get_opt_token as a hard error, and
\* never as an outcome that a successful read without a code also produces.
C10_FailureDistinctFromNoCode ==
    (BackendFailed(sheet) /\ otp_outcome.kind # "pending") =>
        /\ otp_outcome.kind \in {"raise", "exit"}
        /\ \A read \in SheetReads :
              NoCode(read) => get_opt_token(read) # otp_outcome

(***************************************************************************)
(* Properties of the batch fetcher                                         *)
(***************************************************************************)
\* C11: when the upload of an artifact fails, the failure leaves
\* perform_api_calls as an exception: the batch does not go on or return, and
\* the descriptor is not recorded as a failed entry.
C11_PersistFailurePropagates ==
    hist.put_failures > 0 =>
        /\ pc = "raised"
        /\ exc = "ClientError"
        /\ hist.put_failures = 1
        /\ Len(call_log) = idx
        /\ response_ok(response)
        /\ Len(results) < idx
        /\ DistinctNames(endpoints) =>
              ~\E k \in 1..Len(results) :
                  results[k].name = ConfigName(endpoints[idx])

C11_SecondUploadFailed ==
    /\ hist.put_failures = 1
    /\ pc = "raised"
    /\ idx = 2
    /\ Len(results) = 1
    /\ Len(s3_objects) = 1
    /\ DistinctNames(endpoints)

\* the HTTP call came back 2xx with a body that parses as JSON
HttpOk(resp) ==
    resp.kind = "response" /\ resp.status \in 200..299 /\ resp.json

\* C12: for every descriptor whose call returned 2xx with a parseable JSON
\* body, an empty object or list included, the envelope with that body is
\* persisted and the descriptor's result is recorded as ok.
C12_SuccessIsPersisted ==
    DistinctNames(endpoints) =>
        \A k \in 1..Len(call_log) :
            (k < idx /\ HttpOk(call_log[k].resp)) =>
                /\ \E j \in 1..Len(results) :
                      /\ results[j].name = call_log[k].name
                      /\ results[j].value = call_log[k].resp.body
                /\ \E o \in 1..Len(s3_objects) :
                      /\ s3_objects[o].Body.doc.endpoint = call_log[k].endpoint
                      /\ s3_objects[o].Body.doc.data = call_log[k].resp.body

SpecialChars == {"/", "\\", "?"}

\* C13: the key an artifact is persisted under is <prefix>/<name>_<YYYYMMDD>
\* .json, where name is the descriptor's friendly name or, when it has none,
\* a form of its path without "/", "\" and "?", and the date is the local
\* date of the call.
C13_ArtifactKey ==
    (pc = "batch_call" /\ idx > 1 /\ response_ok(response)) =>
        LET config == endpoints[idx - 1]
            key == s3_objects[Len(s3_objects)].Key
            n == Len(key)
            base == SubSeq(key, Len(S3_PREFIX) + 2, n - 10)
        IN /\ n >= Len(S3_PREFIX) + 11
           /\ SubSeq(key, 1, Len(S3_PREFIX) + 1) = S3_PREFIX \o <<"/">>
           /\ SubSeq(key, n - 9, n)
                 = <<"_">> \o ZeroPad(clock.year, 4) \o ZeroPad(clock.month, 2)
                       \o ZeroPad(clock.day, 2) \o <<".json">>
           /\ IF "name" \in config.keys /\ config.name # <<>>
              THEN base = config.name
              ELSE \A k \in 1..Len(base) : base[k] \notin SpecialChars

\* C14: end to end: login 200, challenge 200, a final URL without the login
\* path and valid stored tokens give a populated token pair; a successful
\* refresh makes the refreshed token the active one; and when all six
\* configured endpoints succeed the summary has six successful entries and
\* six artifacts were persisted, one per configured name.
C14_EndToEnd ==
    /\ ( /\ login_status = 200
         /\ challenge_status = 200
         /\ ~\E k \in 1..Len(url) : url[k] \in {"login", "Login"}
         /\ StoredPair(storage) )
          => ( /\ login_result = "pair"
               /\ tokens.idToken = storage.doc.idToken
               /\ tokens.refreshToken = storage.doc.refreshToken )
    /\ (pc = "batch_enter" /\ RefreshSucceeded(refresh_resp))
          => active_token = refresh_resp.body.idToken
    /\ ( /\ pc = "main_done"
         /\ login_result = "pair"
         /\ Len(call_log) = Len(get_api_endpoints)
         /\ \A k \in 1..Len(call_log) : HttpOk(call_log[k].resp) )
          => ( /\ Len(results) = 6
               /\ \A k \in 1..Len(results) :
                     /\ results[k].name = get_api_endpoints[k].name
                     /\ results[k].value # PyNone
               /\ Len(s3_objects) = 6
               /\ \A k \in 1..6 :
                     s3_objects[k].Key
                        = S3_PREFIX \o <<"/">> \o get_api_endpoints[k].name
                             \o <<"_">> \o strftime_Ymd(clock) \o <<".json">> )

(***************************************************************************)
(* Properties of the OTP extraction                                        *)
(***************************************************************************)
HasBareSix(text) ==
    \E k \in 1..Len(text) : text[k].pre = "" /\ Len(text[k].digits) = 6

HasKeywordFour(text) ==
    \E k \in 1..Len(text) :
        /\ Len(text[k].digits) = 4
        /\ \/ text[k].pre \in {"code", "Code"}
           \/ k > 1 /\ text[k].pre = "" /\ text[k - 1] = Token("Code", <<>>)

\* C15: for a text with both a bare 6-digit run and a keyword-prefixed
\* 4-digit run, the code extracted is the 6-digit run.
C15_SixDigitsBeforeKeyword ==
    (pc = "mail_done" /\ HasBareSix(mail.text) /\ HasKeywordFour(mail.text)) =>
        /\ mail.result.found
        /\ Len(mail.result.digits) = 6
        /\ \E k \in 1..Len(mail.text) :
              /\ mail.text[k] = Token("", mail.result.digits)
              /\ \A j \in 1..(k - 1) :
                    ~(mail.text[j].pre = "" /\ Len(mail.text[j].digits) = 6)

C15_KeywordThenSix ==
    /\ pc = "mail_done"
    /\ mail.text = <<Token("Code", <<>>), Token("", <<"4", "3", "2", "1">>),
                     Token("", <<"1", "2", "3", "4", "5", "6">>)>>
    /\ mail.result = Found(<<"1", "2", "3", "4", "5", "6">>)

(***************************************************************************)
(* Properties of the order and the number of the steps of a run            *)
(***************************************************************************)
\* C16: no step is retried within a run: the login submit and the challenge
\* submit are clicked at most once, the OTP source is read at most once, the
\* refresh endpoint is posted at most once and each endpoint descriptor is
\* called at most once.
C16_NoStepRetried ==
    /\ hist.login_clicks <= 1
    /\ hist.challenge_clicks <= 1
    /\ hist.otp_reads <= 1
    /\ hist.refresh_posts <= 1
    /\ Len(call_log) <= Len(endpoints)
    /\ \A a, b \in 1..Len(call_log) :
          a # b => call_log[a].endpoint # call_log[b].endpoint

C16_FullRunWithFailures ==
    /\ pc = "main_done"
    /\ hist.login_clicks = 1
    /\ hist.challenge_clicks = 1
    /\ hist.otp_reads = 1
    /\ hist.refresh_posts = 1
    /\ Len(call_log) = Len(endpoints)
    /\ Len(endpoints) > 1
    /\ \A k \in 1..Len(call_log) : CallFailed(call_log[k].resp)

\* C17: the stages are ordered login, refresh, batch fetch, artifact writes:
\* refresh is posted only after the login driver returned a token pair, no
\* endpoint is called before refresh_token has returned, no artifact is written
\* before an endpoint was called, and a run whose login returned absent does
\* none of the three.
C17_StagesInOrder ==
    /\ hist.refresh_posts > 0 => login_result = "pair"
    /\ call_log # <<>> =>
          /\ hist.refresh_posts = 1
          /\ pc \in {"batch_call", "batch_record", "batch_returned",
                     "main_done", "raised"}
          /\ exc # "AttributeError"
    /\ Len(s3_objects) <= Len(call_log)
    /\ login_result \in {"absent", "raised"} =>
          /\ hist.refresh_posts = 0
          /\ refresh_resp = NoResponse
          /\ call_log = <<>>
          /\ s3_objects = <<>>

C17_AbsentLoginEndsRun ==
    /\ pc = "main_done"
    /\ login_result = "absent"
    /\ hist.login_clicks = 1
    /\ hist.refresh_posts = 0
    /\ call_log = <<>>

\* the OTP source gave a code
GaveCode(outcome) == outcome.kind = "return" /\ Truthy(outcome.value)

\* C18: the OTP source is read only after the challenge URL and the OTP input
\* were detected; the challenge submit is clicked only after a code from the
\* OTP source was typed; when the source yields no code the flow fails with
\* nothing typed and the challenge submit not clicked.
C18_ChallengeNeedsCode ==
    /\ hist.otp_reads > 0 => hist.challenge_url_seen /\ hist.otp_input_seen
    /\ hist.challenge_clicks > 0 =>
          /\ hist.otp_reads = 1
          /\ GaveCode(otp_outcome)
          /\ typed = otp_outcome.value
    /\ (hist.otp_reads > 0 /\ ~GaveCode(otp_outcome)) =>
          /\ typed = PyNone
          /\ hist.challenge_clicks = 0
          /\ pc = "raised"
          /\ login_result = "raised"

C18_NoCodeNothingTyped ==
    /\ hist.otp_reads = 1
    /\ NoCode(sheet)
    /\ pc = "raised"
    /\ typed = PyNone
    /\ hist.challenge_clicks = 0

(***************************************************************************)
(* Properties of refresh_token and of the result mapping                   *)
(***************************************************************************)
\* C19: refresh_token never raises on a transport failure, a non-2xx response
\* or a response without idToken: it returns None in each of these cases, and
\* it returns the new idToken exactly when the response is 2xx with a
\* non-empty idToken.
C19_RefreshNeverRaises ==
    refresh_resp # NoResponse =>
        /\ exc = "none"
        /\ pc \in {"select_token", "batch_enter"}
        /\ refreshed_token = IF RefreshSucceeded(refresh_resp)
                             THEN refresh_resp.body.idToken
                             ELSE PyNone

\* C20: the mapping perform_api_calls returns has one result per descriptor,
\* in the order of the descriptor list, whatever calls succeeded or failed.
C20_OneResultPerDescriptor ==
    pc = "batch_returned" =>
        /\ Len(results) = Len(endpoints)
        /\ \A k \in 1..Len(results) : results[k].name = ConfigName(endpoints[k])

\* C20 (amended): for descriptors with pairwise distinct names, the mapping
\* perform_api_calls returns has one result per descriptor, in the order of the
\* descriptor list, whatever calls succeeded or failed.
C20_OrderedForDistinctNames ==
    DistinctNames(endpoints) =>
        /\ \A k \in 1..Len(results) : results[k].name = ConfigName(endpoints[k])
        /\ pc = "batch_returned" => Len(results) = Len(endpoints)

C20_FailureThenSuccess ==
    /\ pc = "batch_returned"
    /\ Len(endpoints) = 2
    /\ DistinctNames(endpoints)
    /\ Len(results) = 2
    /\ results[1].value = PyNone
    /\ results[2].value # PyNone

(***************************************************************************)
(* Properties of the batch fetcher's writes                                *)
(***************************************************************************)
\* the artifact _save_api_response uploads for a descriptor and a payload
ArtifactOf(config, payload) ==
    save_api_response(config.endpoint, payload,
                      ConfigGet(config, "method", "GET"), ConfigName(config),
                      clock)

\* the object the store holds under a key: the last upload to that key
StoredUnder(key) ==
    LET ups == {j \in 1..Len(s3_objects) : s3_objects[j].Key = key}
    IN s3_objects[CHOOSE j \in ups : \A i \in ups : i <= j]

\* C21: a successful fetch is persisted at once: when the call of a later
\* descriptor has been issued, the artifact of every earlier descriptor whose
\* call was taken as a success is already uploaded, and at every point every
\* name recorded with a payload has that payload stored under its key.
C21_PersistedBeforeNextCall ==
    /\ \A k \in 1..Len(call_log) :
          (k < Len(call_log) /\ response_ok(make_api_call(call_log[k].resp))) =>
              \E j \in 1..Len(s3_objects) :
                  s3_objects[j] = ArtifactOf(endpoints[k],
                                             make_api_call(call_log[k].resp))
    /\ \A k \in 1..Len(results) :
          results[k].value # PyNone =>
              \E i \in 1..Len(endpoints) :
                  /\ ConfigName(endpoints[i]) = results[k].name
                  /\ \E j \in 1..Len(s3_objects) :
                        s3_objects[j].Key = ArtifactOf(endpoints[i], PyNone).Key
                  /\ StoredUnder(ArtifactOf(endpoints[i], PyNone).Key).Body.doc.data
                        = results[k].value

C21_SecondCallAfterUpload ==
    /\ pc = "batch_record"
    /\ Len(call_log) = 2
    /\ Len(results) = 1
    /\ results[1].value # PyNone
    /\ Len(s3_objects) = 1
    /\ s3_objects[1] = ArtifactOf(endpoints[1], results[1].value)

(***************************************************************************)
(* Termination                                                             *)
(***************************************************************************)
\* perform_login returned None or was left by an exception
LoginFailedOutcome ==
    /\ login_result \in {"absent", "raised"}
    /\ pc \in {"login_returned", "main_done", "raised"}

\* main printed the per-endpoint summary
SummaryPrinted == pc = "main_done" /\ login_result = "pair"

\* an exception left main after a login that returned a token pair
RaisedAfterLogin ==
    /\ pc = "raised"
    /\ login_result = "pair"
    /\ exc \in {"AttributeError", "ClientError"}

\* C22: when every wait completes or hits its timeout and every call returns
\* or fails, a run of main eventually reaches a failed login outcome or the
\* end of the batch summary.
C22_EndsInLoginFailureOrSummary == <>(LoginFailedOutcome \/ SummaryPrinted)

\* C22 (amended): when every wait completes or hits its timeout and every call
\* returns or fails, a run of main eventually reaches a failed login outcome,
\* the end of the batch summary, or an exception of refresh_token or of the
\* upload that leaves main; it never stays in a login state forever.
C22_RunTerminates ==
    <>[](LoginFailedOutcome \/ SummaryPrinted \/ RaisedAfterLogin)

C22_LeaveWaitTimedOut ==
    /\ pc = "raised"
    /\ exc = "TimeoutError"
    /\ timed_out = "challenge_wait_leave"
    /\ login_result = "raised"

(***************************************************************************)
(* Properties of the storage-state file and of the batch's inputs          *)
(***************************************************************************)
\* C23: session_state.json is written only when the challenge status was 200
\* and the URL after the challenge holds no login path, at most once, and
\* before local storage is read for the tokens; it is written in every run
\* that returns a pair, and the extraction that follows may still find no
\* tokens.
C23_StateSavedOnlyOnSuccess ==
    /\ hist.state_saved <= 1
    /\ hist.state_saved > 0 =>
          /\ login_status = 200
          /\ challenge_status = 200
          /\ ~\E k \in 1..Len(url) : url[k] \in {"login", "Login"}
    /\ storage # NoRaw => hist.state_saved = 1
    /\ pc = "extract" => hist.state_saved = 1 /\ storage = NoRaw
    /\ login_result = "pair" => hist.state_saved = 1

C23_SavedButNoTokens ==
    /\ pc = "login_returned"
    /\ hist.state_saved = 1
    /\ login_result = "absent"
    /\ storage # NoRaw
    /\ ~StoredPair(storage)

\* C24: perform_api_calls uses its inputs read-only: no step of the batch
\* changes the token or the list of descriptors, and every call of the batch,
\* also one after a failed call, carries the token that was passed in and is
\* made for the descriptor at its place in the list.
C24_InputsReadOnly ==
    /\ [](\A k \in 1..Len(call_log) :
             /\ call_log[k].token = active_token
             /\ call_log[k].endpoint = endpoints[k].endpoint
             /\ call_log[k].name = ConfigName(endpoints[k]))
    /\ [][active_token' = active_token /\ endpoints' = endpoints]_vars

C24_CallAfterFailedCall ==
    /\ pc = "batch_returned"
    /\ Len(endpoints) = 2
    /\ Len(call_log) = 2
    /\ CallFailed(call_log[1].resp)
    /\ results[1].value = PyNone
    /\ call_log[2].token = PyStr("idA")
    /\ call_log[1].token = call_log[2].token

====
